---- MODULE Spec2Model ----
(***************************************************************************)
(* Playback orchestrator (PlayerProvider), its queue, and the video        *)
(* adapter's seek buffering, as state machines.                            *)
(*                                                                         *)
(* Conventions                                                             *)
(*   - JavaScript null and undefined are both the string NULL.             *)
(*   - An optional number (seekToSec, startSec, pendingSeekRef) is a       *)
(*     sequence: <<>> for null/undefined, <<n>> for the number n.          *)
(*   - queueIndex and every index argument are 0-based, as in the code;    *)
(*     queue is a TLA+ sequence, so queue[i] of the code is At(queue, i).  *)
(*   - setState(updater) is applied at once: React applies the queued      *)
(*     updaters in call order, so the committed state is the same.  What   *)
(*     is NOT immediate is an effect: it runs after the commit, so it is   *)
(*     an action of its own.                                               *)
(***************************************************************************)
EXTENDS Integers, Sequences, FiniteSets, TLC

NULL == "null"

\* ---------------------------------------------------------------- bounds
\* Longest queue addToQueue builds in the queue-only specification.
MaxQueue == 3
\* Longest queue addToQueue builds when every orchestrator operation runs.
MaxQueueAll == 1
\* Lowest index handed to playFromQueue / removeFromQueue is -MaxNegIndex.
MaxNegIndex == 1
\* Most controls.seekTo calls the video adapter receives.
MaxSeekRequests == 3
\* Most device-transfer requests the streaming adapter issues.
MaxTransfers == 2
\* Most teardown calls the streaming adapter has waiting for disconnect().
MaxTeardowns == 2
\* Most runs of setup() the streaming adapter starts.
MaxSetups == 2
\* Most pause and teardown calls a session leaves waiting on the streaming SDK.
MaxSessionStops == 1
\* Most device-transfer requests the streaming adapter issues in a session.
MaxSessionTransfers == 1
MaxIframePlayers == 2
MaxLoaderCalls == 3

\* ---------------------------------------------------------------- inputs
\* The two engines that have an adapter and an open flag.
Engines == {"spotify", "youtube"}
\* Values getPreferredProvider() returns: null when nothing is stored, or an
\* engine.  (Any other member of MusicProvider takes the same branches as null
\* in every updater below.)
Preferences == {NULL, "spotify", "youtube"}

Track1 == [id |-> "t1", spotify_id |-> "p1", youtube_id |-> "p2"]
Track2 == [id |-> "t2", spotify_id |-> NULL, youtube_id |-> "p2"]
Tracks == {Track1, Track2}

\* <<canonicalTrackId, providerTrackId>> of a play / openPlayer / switchProvider call
Requests == { <<NULL, NULL>>, <<"t1", "p1">>, <<"t2", "p2">> }
NoSec == <<>>
StartSecs == {NoSec, <<42>>}
SeekSecs == {<<42>>}
VideoSeekSecs == {42, 77}
\* what getValidAccessToken resolves to: null or a token
Tokens == {NULL, "tok"}
\* device ids the SDK's ready event carries
Devices == {"d1", "d2"}

\* ---------------------------------------------------------------- state
VARIABLES
    state,              \* PlayerState held by useState
    activeProviderRef,  \* activeProviderRef.current
    providerControls,   \* providers with an entry in providerControlsRef.current
    adapterSetup,       \* engines whose adapter setup() is running, controls not yet registered
    issued,             \* adapter calls made by the last operation, in order
    last,               \* the last operation and its arguments
    pre,                \* provider, queue and queueIndex the last operation was applied to
    recordPromise,      \* the promise of the last operation's recordPlayEvent call
    \* the video adapter (YouTubePlayer)
    playerRef,          \* playerRef.current: NULL or the native player
    readyRef,           \* readyRef.current
    pendingSeekRef,     \* pendingSeekRef.current
    setupWaiting,       \* setup() is suspended in await loadYouTubeApi()
    engineReady,        \* the native player has fired onReady
    seekTimers,         \* seconds captured by the pending setTimeout callbacks, oldest first
    nativeSeeks,        \* seconds of the native seekTo calls made on the engine, in order
    seekBuffered,       \* per controls.seekTo call received: TRUE when it was buffered
    seeksAtTeardown,    \* how many had been received when controls.teardown last ran
    seekRequests,       \* seconds of the controls.seekTo calls received, in order
    seeksAtReady,       \* how many of them had been received when onReady fired; -1 before
    tornDown,           \* controls.teardown has run
    enginePlaying,      \* the native player was started (playVideo) and not paused since
    seekEffectDeps,     \* <<provider, seekToSec>> the adapter's seek effect last ran with
    effectTimers,       \* seconds captured by the seek effect's pending setTimeout callbacks
    \* the streaming adapter (SpotifyEmbedPreview)
    spotifySetup,       \* where setup() stands: "idle", "loadSdk", "token", "connect", "done", "disabled"
    tokenRef,           \* tokenRef.current
    deviceIdRef,        \* deviceIdRef.current
    spotifyPlayerRef,   \* playerRef.current of SpotifyEmbedPreview
    ready,              \* the ready state of SpotifyEmbedPreview
    spotifyPlayerSingleton,     \* the module's player singleton exists
    spotifyListenersAttached,   \* the module's listeners flag
    transfers,          \* transferPlayback requests in flight: [path, device]
    requests,           \* Web API requests issued and their outcomes, in order
    spotifyTeardowns,   \* controls.teardown calls waiting in await player.disconnect()
    spotifyPauses,      \* controls.pause calls waiting in await player.pause()
    spotifyControls,    \* <<>>, or <<providerTrackId>> the registered controls closed over
    spotifyCancelled,   \* cancelled runs of setup() still suspended: [stage, track]
    spotifyEffectState, \* <<>>, or <<state>> the setup effect last ran with
    spotifySetups,      \* how many runs of setup() were started
    tokenWarnings,      \* how often 'Spotify token unavailable' was logged
    spotifyCaptured,    \* <<>>, or <<[token, track]>> the attached listeners closed over
    spotifyOnline,      \* connect() was called and no disconnect() done since
    startRequests,      \* the startPlayback requests made, each as the transfer before it
    \* the second video adapter (YouTubePlayer with onStateChange)
    iframeMounted,      \* the setup effect's mounted flag; FALSE before it ran and after its cleanup
    iframeLoading,      \* the effect's loadYouTubeAPI().then callback has not run yet
    iframePlayerRef,    \* playerRef.current: 0 for null, else the native player instance
    iframePlayerDivRef, \* playerDivRef.current holds the injected div
    iframeHostDiv,      \* the container element holds an injected div
    iframeControls,     \* this adapter's controls object has been registered
    iframeTeardownRef,  \* teardownRef.current is set
    iframeDestroys,     \* per native player instance, the destroy() calls it received
    iframeThrown,       \* an exception left the last teardown or cleanup call
    iframeLast,         \* the last step of this adapter
    iframeTrackId,      \* providerTrackId of the latest run of the setup effect
    iframeVideoId,      \* per native player instance, the video it was last given
    \* the engine loaders (loadSdk, loadYouTubeApi) and the document they work on
    sdkPromise,         \* 0 for null, else the promise it holds
    sdkReady,
    ytPromise,          \* 0 for null, else the promise it holds
    promises,           \* the state of every promise the loaders created, by number
    returned,           \* per loader call, in order: the loader, the promise it returned,
                        \* and whether the engine's ready signal had fired
    windowApi,          \* the engines whose API object is defined on window
    onSpotifyWebPlaybackSDKReady,   \* 0 for undefined, else the promise the callback resolves
    onYouTubeIframeAPIReady,        \* 0 for undefined, else the promise the callback resolves
    scriptTags,         \* src of the script elements appended to the document, in order
    scriptState         \* per appended src: "loading", "ran" or "failed"

playerVars == <<state, activeProviderRef, adapterSetup, issued, last, pre, recordPromise>>
videoVars == <<playerRef, readyRef, pendingSeekRef, setupWaiting, engineReady,
               seekTimers, nativeSeeks, seekRequests, seekBuffered, seeksAtTeardown, seeksAtReady, tornDown,
               enginePlaying, seekEffectDeps, effectTimers>>
spotifyVars == <<spotifySetup, tokenRef, deviceIdRef, spotifyPlayerRef, ready,
                 spotifyPlayerSingleton, spotifyListenersAttached, transfers, requests,
                 spotifyTeardowns, spotifyPauses, spotifyControls, spotifyCancelled,
                 spotifyEffectState, spotifySetups, tokenWarnings, spotifyCaptured,
                 spotifyOnline, startRequests>>
iframeVars == <<iframeMounted, iframeLoading, iframePlayerRef, iframePlayerDivRef, iframeHostDiv,
                iframeControls, iframeTeardownRef, iframeDestroys, iframeThrown, iframeLast,
                iframeTrackId, iframeVideoId>>
loaderVars == <<sdkPromise, sdkReady, ytPromise, promises, returned, windowApi,
                onSpotifyWebPlaybackSDKReady, onYouTubeIframeAPIReady, scriptTags, scriptState>>
vars == <<playerVars, providerControls, videoVars, spotifyVars, iframeVars, loaderVars>>

InitialState ==
    [ provider |-> NULL, trackId |-> NULL,
      spotifyOpen |-> FALSE, youtubeOpen |-> FALSE,
      canonicalTrackId |-> NULL,
      spotifyTrackId |-> NULL, youtubeTrackId |-> NULL,
      autoplaySpotify |-> FALSE, autoplayYoutube |-> FALSE,
      seekToSec |-> NoSec, currentSectionId |-> NULL,
      isPlaying |-> FALSE,
      queue |-> <<>>, queueIndex |-> -1 ]

\* ---------------------------------------------------------------- JS helpers
\* a ?? b
Coalesce(a, b) == IF a = NULL THEN b ELSE a

\* queue[i] is defined (an object, so truthy) exactly when i is an index of the array
HasIndex(q, i) == i >= 0 /\ i < Len(q)
\* queue[i] for such an i
At(q, i) == q[i + 1]

Min2(a, b) == IF a < b THEN a ELSE b
Max2(a, b) == IF a > b THEN a ELSE b

\* Array.prototype.slice's clamping of a relative index
RelIndex(k, len) == IF k < 0 THEN Max2(len + k, 0) ELSE Min2(k, len)

\* q.slice(start, end)
Slice(q, start, end) ==
    LET s == RelIndex(start, Len(q))
        e == RelIndex(end, Len(q))
    IN  IF e <= s THEN <<>> ELSE SubSeq(q, s + 1, e)

\* q.slice(start)
SliceFrom(q, start) == Slice(q, start, Len(q))

\* q.filter((_, i) => i !== index)
RECURSIVE FilterFrom(_, _, _)
FilterFrom(q, i, index) ==
    IF i >= Len(q) THEN <<>>
    ELSE (IF i # index THEN <<q[i + 1]>> ELSE <<>>) \o FilterFrom(q, i + 1, index)

FilterNotIndex(q, index) == FilterFrom(q, 0, index)

\* the orders [...a].sort(() => Math.random() - 0.5) can leave a in
Orders(n) == { f \in [1..n -> 1..n] : \A i, j \in 1..n : f[i] = f[j] => i = j }
Shuffles(a) == { [i \in 1..Len(a) |-> a[f[i]]] : f \in Orders(Len(a)) }

\* ---------------------------------------------------------------- updaters
\* The function each operation hands to setState: prev |-> next.

\* OpenBranch without the two assignments that close the other engine
OpenBranchLeavesOther(prev, base, provider, spotifyId, youtubeId, autoplay) ==
    IF provider = "spotify"
    THEN [base EXCEPT !.spotifyOpen = TRUE, !.spotifyTrackId = spotifyId,
                      !.autoplaySpotify = autoplay]
    ELSE [base EXCEPT !.youtubeOpen = TRUE, !.youtubeTrackId = youtubeId,
                      !.autoplayYoutube = autoplay]

\* the provider-specific branch shared by play / openPlayer / switchProvider
OpenBranch(prev, base, provider, spotifyId, youtubeId, autoplay) ==
    IF provider = "spotify"
    THEN [base EXCEPT !.spotifyOpen = TRUE, !.spotifyTrackId = spotifyId,
                      !.autoplaySpotify = autoplay,
                      !.youtubeOpen = FALSE, !.autoplayYoutube = FALSE]
    ELSE [base EXCEPT !.youtubeOpen = TRUE, !.youtubeTrackId = youtubeId,
                      !.autoplayYoutube = autoplay,
                      !.spotifyOpen = FALSE, !.autoplaySpotify = FALSE]

\* playUpdater with seekToSec: startSec ?? prev.seekToSec
playUpdaterKeepsSeek(prev, canonicalTrackId, provider, providerTrackId, startSec) ==
    LET base == [prev EXCEPT
                   !.canonicalTrackId = Coalesce(canonicalTrackId, prev.canonicalTrackId),
                   !.seekToSec = IF startSec = NoSec THEN prev.seekToSec ELSE startSec,
                   !.provider = provider,
                   !.trackId = Coalesce(providerTrackId, prev.trackId),
                   !.isPlaying = TRUE]
    IN  OpenBranch(prev, base, provider,
                   Coalesce(providerTrackId, prev.spotifyTrackId),
                   Coalesce(providerTrackId, prev.youtubeTrackId), TRUE)

playUpdater(prev, canonicalTrackId, provider, providerTrackId, startSec) ==
    LET base == [prev EXCEPT
                   !.canonicalTrackId = Coalesce(canonicalTrackId, prev.canonicalTrackId),
                   !.seekToSec = startSec,
                   !.provider = provider,
                   !.trackId = Coalesce(providerTrackId, prev.trackId),
                   !.isPlaying = TRUE]
    IN  OpenBranch(prev, base, provider,
                   Coalesce(providerTrackId, prev.spotifyTrackId),
                   Coalesce(providerTrackId, prev.youtubeTrackId), TRUE)

\* payload.autoplay is <<>> when omitted, else <<TRUE>> or <<FALSE>>
openPlayerUpdater(prev, payload) ==
    LET base == [prev EXCEPT
                   !.canonicalTrackId = Coalesce(payload.canonicalTrackId, prev.canonicalTrackId),
                   !.seekToSec = payload.startSec,
                   !.provider = payload.provider,
                   !.trackId = payload.providerTrackId,
                   !.isPlaying = TRUE]
        autoplay == IF payload.autoplay = <<>> THEN TRUE ELSE payload.autoplay[1]
    IN  OpenBranch(prev, base, payload.provider,
                   payload.providerTrackId, payload.providerTrackId, autoplay)

switchProviderUpdater(prev, provider, providerTrackId, canonicalTrackId) ==
    LET base == [prev EXCEPT
                   !.canonicalTrackId = Coalesce(canonicalTrackId, prev.canonicalTrackId),
                   !.seekToSec = NoSec,
                   !.provider = provider,
                   !.trackId = providerTrackId]
    IN  OpenBranch(prev, base, provider, providerTrackId, providerTrackId, TRUE)

pauseUpdater(prev) ==
    [prev EXCEPT !.isPlaying = FALSE, !.autoplaySpotify = FALSE, !.autoplayYoutube = FALSE]

stopUpdater(prev) ==
    [prev EXCEPT !.isPlaying = FALSE, !.provider = NULL, !.trackId = NULL,
                 !.spotifyOpen = FALSE, !.youtubeOpen = FALSE,
                 !.spotifyTrackId = NULL, !.youtubeTrackId = NULL,
                 !.canonicalTrackId = NULL,
                 !.autoplaySpotify = FALSE, !.autoplayYoutube = FALSE,
                 !.seekToSec = NoSec]

closeSpotifyUpdater(prev) == [prev EXCEPT !.spotifyOpen = FALSE, !.autoplaySpotify = FALSE]
closeYoutubeUpdater(prev) == [prev EXCEPT !.youtubeOpen = FALSE, !.autoplayYoutube = FALSE]

seekToUpdater(prev, sec) == [prev EXCEPT !.seekToSec = sec]
clearSeekUpdater(prev) == [prev EXCEPT !.seekToSec = NoSec]
setIsPlayingUpdater(prev, playing) == [prev EXCEPT !.isPlaying = playing]

addToQueueUpdater(prev, track) == [prev EXCEPT !.queue = Append(prev.queue, track)]

\* provider is what getPreferredProvider() returned
ProviderTrackIdOf(track, provider) ==
    IF provider = "spotify" THEN track.spotify_id ELSE track.youtube_id

playFromQueueUpdater(prev, index, provider) ==
    IF ~HasIndex(prev.queue, index) THEN prev
    ELSE LET track == At(prev.queue, index)
         IN  LET providerTrackId == ProviderTrackIdOf(track, provider)
             IN  [prev EXCEPT
                    !.queueIndex = index,
                    !.canonicalTrackId = track.id,
                    !.provider = provider,
                    !.trackId = providerTrackId,
                    !.spotifyOpen = (provider = "spotify"),
                    !.youtubeOpen = (provider = "youtube"),
                    !.spotifyTrackId = IF provider = "spotify" THEN providerTrackId ELSE NULL,
                    !.youtubeTrackId = IF provider = "youtube" THEN providerTrackId ELSE NULL,
                    !.autoplaySpotify = (provider = "spotify"),
                    !.autoplayYoutube = (provider = "youtube")]

\* removeFromQueueUpdater that keeps queueIndex whatever the removed index
removeFromQueueUpdaterKeepsIndex(prev, index) ==
    [prev EXCEPT !.queue = FilterNotIndex(prev.queue, index)]

removeFromQueueUpdater(prev, index) ==
    LET newQueue == FilterNotIndex(prev.queue, index)
        newIndex == IF index < prev.queueIndex THEN prev.queueIndex - 1 ELSE prev.queueIndex
    IN  [prev EXCEPT !.queue = newQueue, !.queueIndex = newIndex]

reorderQueueUpdater(prev, newQueue) == [prev EXCEPT !.queue = newQueue]

clearQueueUpdater(prev) == [prev EXCEPT !.queue = <<>>, !.queueIndex = -1]

\* shuffleQueueUpdater that keeps one entry too few: slice(0, queueIndex)
shuffleQueueUpdaterOffByOne(prev, shuffled) ==
    [prev EXCEPT !.queue = Slice(prev.queue, 0, prev.queueIndex) \o shuffled]

\* shuffled is the order the random sort left remainingTracks in
shuffleQueueUpdater(prev, shuffled) ==
    [prev EXCEPT !.queue = Slice(prev.queue, 0, prev.queueIndex + 1) \o shuffled]

\* the part of nextTrack / previousTrack after the index is chosen
AdvanceTo(prev, index, provider) ==
    IF ~HasIndex(prev.queue, index) THEN prev
    ELSE LET track == At(prev.queue, index)
         IN  LET providerTrackId == ProviderTrackIdOf(track, provider)
             IN  [prev EXCEPT
                    !.queueIndex = index,
                    !.canonicalTrackId = track.id,
                    !.provider = provider,
                    !.trackId = providerTrackId,
                    !.spotifyTrackId = IF provider = "spotify" THEN providerTrackId ELSE NULL,
                    !.youtubeTrackId = IF provider = "youtube" THEN providerTrackId ELSE NULL,
                    !.autoplaySpotify = (provider = "spotify"),
                    !.autoplayYoutube = (provider = "youtube")]

\* nextTrackUpdater without the wrap to index 0
nextTrackUpdaterNoWrap(prev, provider) ==
    IF Len(prev.queue) = 0 THEN prev
    ELSE AdvanceTo(prev, prev.queueIndex + 1, provider)

nextTrackUpdater(prev, provider) ==
    IF Len(prev.queue) = 0 THEN prev
    ELSE LET nextIndex == IF prev.queueIndex >= Len(prev.queue) - 1
                          THEN 0 ELSE prev.queueIndex + 1
         IN  AdvanceTo(prev, nextIndex, provider)

previousTrackUpdater(prev, provider) ==
    IF Len(prev.queue) = 0 THEN prev
    ELSE LET prevIndex == IF prev.queueIndex <= 0
                          THEN Len(prev.queue) - 1 ELSE prev.queueIndex - 1
         IN  AdvanceTo(prev, prevIndex, provider)

\* ---------------------------------------------------------------- adapter calls
\* stopProvider(provider): the calls it makes on the registered controls
stopProvider(provider, controls) ==
    IF provider = NULL THEN <<>>
    ELSE IF provider \in controls
         THEN << <<provider, "pause">>, <<provider, "teardown">> >>
         ELSE <<>>

\* the guarded stopProvider at the head of play / openPlayer / switchProvider
StopPrevious(prevProvider, provider, controls) ==
    IF prevProvider # NULL /\ prevProvider # provider
    THEN stopProvider(prevProvider, controls)
    ELSE <<>>

\* ---------------------------------------------------------------- calls reaching the video adapter
Calls(calls) == { calls[k] : k \in 1..Len(calls) }

\* the body of the video adapter's controls.teardown
videoTeardown ==
    /\ readyRef' = FALSE
    /\ pendingSeekRef' = NoSec
    /\ playerRef' = NULL
    /\ engineReady' = FALSE
    /\ enginePlaying' = FALSE
    /\ tornDown' = TRUE
    /\ seeksAtTeardown' = Len(seekRequests)
    /\ UNCHANGED <<setupWaiting, seekTimers, nativeSeeks, seekRequests, seekBuffered, seeksAtReady,
                   seekEffectDeps, effectTimers>>

\* the body of the video adapter's controls.pause: playerRef.current?.pauseVideo?.()
videoPause ==
    /\ enginePlaying' = FALSE
    /\ UNCHANGED <<playerRef, readyRef, pendingSeekRef, setupWaiting, engineReady, seekTimers,
                   nativeSeeks, seekRequests, seekBuffered, seeksAtTeardown, seeksAtReady, tornDown, seekEffectDeps,
                   effectTimers>>

\* what the calls an operation makes on the registered controls do to the
\* video adapter (pause comes before teardown in stopProvider)
VideoCalls(calls) ==
    IF <<"youtube", "teardown">> \in Calls(calls) THEN videoTeardown
    ELSE IF <<"youtube", "pause">> \in Calls(calls) THEN videoPause
    ELSE UNCHANGED videoVars

\* what they do to the streaming adapter once it has registered its controls:
\* controls.pause and controls.teardown suspend in their await
SpotifyCalls(calls) ==
    /\ spotifyPauses' = spotifyPauses +
          (IF spotifyControls # <<>> /\ <<"spotify", "pause">> \in Calls(calls) THEN 1 ELSE 0)
    /\ spotifyTeardowns' = spotifyTeardowns +
          (IF spotifyControls # <<>> /\ <<"spotify", "teardown">> \in Calls(calls) THEN 1 ELSE 0)
    /\ UNCHANGED <<spotifySetup, tokenRef, deviceIdRef, spotifyPlayerRef, ready,
                   spotifyPlayerSingleton, spotifyListenersAttached, transfers, requests,
                   spotifyControls, spotifyCancelled, spotifyEffectState, spotifySetups,
                   tokenWarnings, spotifyCaptured, spotifyOnline, startRequests>>

\* ---------------------------------------------------------------- event recorder
\* if (trackId) recordPlayEvent({...}): the promise the call returns, "none"
\* when the call is skipped
recordPlayEvent(trackId) == IF trackId = NULL THEN "none" ELSE "pending"

\* The recorder's promise settles: it resolves, or it rejects.
RecordOutcomes == {"resolve", "reject"}

\* a rejection nobody handles
RecordUncaught(outcome) == IF outcome = "reject" THEN "unhandled" ELSE "resolved"

\* .catch((err) => console.error(...)): a rejection is logged and ends there
RecordCaught(outcome) == IF outcome = "reject" THEN "logged" ELSE "resolved"

\* ---------------------------------------------------------------- operations
\* An orchestrator operation: the calls it makes on the controls, then its
\* setState, then its recordPlayEvent call (trackIdToLog is NULL for the
\* operations that make none).
Before(s) == [provider |-> s.provider, queue |-> s.queue, queueIndex |-> s.queueIndex]

CommitRecorded(op, calls, next, trackIdToLog) ==
    /\ pre' = Before(state)
    /\ last' = op
    /\ issued' = calls
    /\ state' = next
    /\ recordPromise' = recordPlayEvent(trackIdToLog)
    /\ VideoCalls(calls)
    /\ SpotifyCalls(calls)
    /\ UNCHANGED <<activeProviderRef, providerControls, adapterSetup, iframeVars, loaderVars>>

Commit(op, calls, next) == CommitRecorded(op, calls, next, NULL)

play(canonicalTrackId, provider, providerTrackId, startSec) ==
    CommitRecorded(
        [op |-> "play", canonicalTrackId |-> canonicalTrackId, provider |-> provider,
         providerTrackId |-> providerTrackId, startSec |-> startSec],
        StopPrevious(activeProviderRef, provider, providerControls),
        playUpdater(state, canonicalTrackId, provider, providerTrackId, startSec),
        canonicalTrackId)

openPlayer(payload) ==
    CommitRecorded(
        [op |-> "openPlayer", canonicalTrackId |-> payload.canonicalTrackId,
         provider |-> payload.provider, providerTrackId |-> payload.providerTrackId,
         startSec |-> payload.startSec, autoplay |-> payload.autoplay],
        StopPrevious(activeProviderRef, payload.provider, providerControls),
        openPlayerUpdater(state, payload),
        payload.canonicalTrackId)

\* state.canonicalTrackId is the rendered state the callback closed over
switchProvider(provider, providerTrackId, canonicalTrackId) ==
    CommitRecorded(
        [op |-> "switchProvider", canonicalTrackId |-> canonicalTrackId,
         provider |-> provider, providerTrackId |-> providerTrackId],
        StopPrevious(activeProviderRef, provider, providerControls),
        switchProviderUpdater(state, provider, providerTrackId, canonicalTrackId),
        Coalesce(canonicalTrackId, state.canonicalTrackId))

\* The promise of the last recordPlayEvent call settles; the handler attached
\* by .catch runs on a rejection.
recordSettles(outcome) ==
    /\ recordPromise = "pending"
    /\ recordPromise' = RecordCaught(outcome)
    /\ UNCHANGED <<state, activeProviderRef, providerControls, adapterSetup, issued, last, pre,
                   videoVars, spotifyVars, iframeVars, loaderVars>>

pause ==
    Commit([op |-> "pause"],
           IF activeProviderRef # NULL /\ activeProviderRef \in providerControls
           THEN << <<activeProviderRef, "pause">> >> ELSE <<>>,
           pauseUpdater(state))

stop ==
    Commit([op |-> "stop"],
           stopProvider(activeProviderRef, providerControls),
           stopUpdater(state))

closeSpotify == Commit([op |-> "closeSpotify"], <<>>, closeSpotifyUpdater(state))
closeYoutube == Commit([op |-> "closeYoutube"], <<>>, closeYoutubeUpdater(state))

\* last.seeks: how many native seeks the video engine had received at the call
seekTo(sec) ==
    Commit([op |-> "seekTo", sec |-> sec, seeks |-> Len(nativeSeeks)], <<>>,
           seekToUpdater(state, sec))
clearSeek == Commit([op |-> "clearSeek"], <<>>, clearSeekUpdater(state))
setIsPlaying(playing) ==
    Commit([op |-> "setIsPlaying", playing |-> playing], <<>>,
           setIsPlayingUpdater(state, playing))

addToQueue(track) ==
    Commit([op |-> "addToQueue", track |-> track], <<>>, addToQueueUpdater(state, track))

\* preferred is the value getPreferredProvider() reads from localStorage
playFromQueue(index, preferred) ==
    Commit([op |-> "playFromQueue", index |-> index, provider |-> preferred], <<>>,
           playFromQueueUpdater(state, index, preferred))

removeFromQueue(index) ==
    Commit([op |-> "removeFromQueue", index |-> index], <<>>,
           removeFromQueueUpdater(state, index))

reorderQueue(newQueue) ==
    Commit([op |-> "reorderQueue"], <<>>, reorderQueueUpdater(state, newQueue))

clearQueue == Commit([op |-> "clearQueue"], <<>>, clearQueueUpdater(state))

shuffleQueue ==
    \E shuffled \in Shuffles(SliceFrom(state.queue, state.queueIndex + 1)) :
        Commit([op |-> "shuffleQueue"], <<>>, shuffleQueueUpdater(state, shuffled))

nextTrack(preferred) ==
    Commit([op |-> "nextTrack", provider |-> preferred], <<>>,
           nextTrackUpdater(state, preferred))

previousTrack(preferred) ==
    Commit([op |-> "previousTrack", provider |-> preferred], <<>>,
           previousTrackUpdater(state, preferred))

\* ---------------------------------------------------------------- effects and adapters
\* PlayerProvider's invariant effect on a committed state: the message of the
\* Error it throws, NULL when it returns
InvariantEffect(s) ==
    IF s.spotifyOpen /\ s.youtubeOpen
    THEN "Invariant violated: both providers open; only one provider may be active."
    ELSE IF s.provider # NULL /\ ~s.isPlaying /\ (s.spotifyOpen \/ s.youtubeOpen)
    THEN NULL
    ELSE IF s.provider = "spotify" /\ s.youtubeOpen
    THEN "Invariant violated: YouTube open while Spotify is active."
    ELSE IF s.provider = "youtube" /\ s.spotifyOpen
    THEN "Invariant violated: Spotify open while YouTube is active."
    ELSE NULL

\* the track id the adapter of an engine is rendered with
AdapterTrackId(s, engine) == IF engine = "spotify" THEN s.spotifyTrackId ELSE s.youtubeTrackId

\* the adapter whose setup effect starts on this commit: the one of the active
\* engine, when it has a track id and its controls are neither registered nor
\* on their way
SetupStarting ==
    { e \in Engines : /\ state.provider = e
                      /\ AdapterTrackId(state, e) # NULL
                      /\ e \notin providerControls \cup adapterSetup }

\* The passive effects of one commit, flushed together.  The cleanup of the
\* video adapter's setup effect sets destroyed, which makes a setup() still
\* waiting for the API return before it registers; the streaming adapter's
\* setup() reads cancelled only before its token fetch and its connect(), so
\* it goes on to register.  Then the setup effect of the active engine starts
\* setup(), and PlayerProvider's effect copies state.provider into
\* activeProviderRef.
RunEffects ==
    /\ activeProviderRef # state.provider \/ SetupStarting # {}
    /\ activeProviderRef' = state.provider
    /\ adapterSetup' =
          (adapterSetup \ (IF state.provider # "youtube" THEN {"youtube"} ELSE {}))
             \cup SetupStarting
    /\ UNCHANGED <<state, providerControls, issued, last, pre, recordPromise, videoVars,
                   spotifyVars, iframeVars, loaderVars>>

\* the adapter's setup() reaches its registerProviderControls call
registerProviderControls(provider) ==
    /\ provider \in adapterSetup
    /\ providerControls' = providerControls \cup {provider}
    /\ adapterSetup' = adapterSetup \ {provider}
    /\ UNCHANGED <<state, activeProviderRef, issued, last, pre, recordPromise, videoVars,
                   spotifyVars, iframeVars, loaderVars>>

\* ---------------------------------------------------------------- video adapter
\* attemptSeek(sec, forcePlay): TRUE when the native seek was made
SeekApplies == readyRef /\ playerRef # NULL

\* an attemptSeek that leaves an earlier pending position in place
PendingKeepsFirst(sec) ==
    IF SeekApplies THEN NoSec
    ELSE IF pendingSeekRef # NoSec THEN pendingSeekRef ELSE <<sec>>

\* pendingSeekRef.current after attemptSeek(sec)
PendingAfterAttempt(sec) == IF SeekApplies THEN NoSec ELSE <<sec>>

\* the native seekTo calls after attemptSeek(sec)
SeeksAfterAttempt(sec) == IF SeekApplies THEN Append(nativeSeeks, sec) ELSE nativeSeeks

\* attemptSeek(sec, true): every caller passes forcePlay = true, so a seek that
\* is made is followed by playVideo()
attemptSeek(sec) ==
    /\ pendingSeekRef' = PendingAfterAttempt(sec)
    /\ nativeSeeks' = SeeksAfterAttempt(sec)
    /\ enginePlaying' = (enginePlaying \/ SeekApplies)

\* The setup effect runs (the video provider is active and has a track):
\* readyRef is reset and setup() suspends on the API.
videoSetupEffect ==
    /\ state.provider = "youtube"
    /\ state.youtubeTrackId # NULL
    /\ readyRef' = FALSE
    /\ setupWaiting' = TRUE
    /\ UNCHANGED <<playerVars, providerControls, playerRef, pendingSeekRef, engineReady,
                   seekTimers, nativeSeeks, seekRequests, seekBuffered, seeksAtTeardown, seeksAtReady, tornDown,
                   enginePlaying, seekEffectDeps, effectTimers>>
    /\ UNCHANGED <<spotifyVars, iframeVars, loaderVars>>

\* setup() resumes: it loads the track into the live player (which starts it),
\* marks it ready and replays the pending seek, or it constructs the native
\* player; either way it then registers the controls.
videoSetupResume ==
    /\ setupWaiting
    /\ setupWaiting' = FALSE
    /\ IF playerRef # NULL
       THEN /\ readyRef' = TRUE
            /\ enginePlaying' = TRUE
            /\ IF pendingSeekRef # NoSec
               THEN /\ nativeSeeks' = Append(nativeSeeks, pendingSeekRef[1])
                    /\ pendingSeekRef' = NoSec
               ELSE UNCHANGED <<nativeSeeks, pendingSeekRef>>
            /\ UNCHANGED <<playerRef, engineReady>>
       ELSE /\ playerRef' = "player"
            /\ engineReady' = FALSE
            /\ enginePlaying' = FALSE
            /\ UNCHANGED <<readyRef, nativeSeeks, pendingSeekRef>>
    /\ providerControls' = providerControls \cup {"youtube"}
    /\ adapterSetup' = adapterSetup \ {"youtube"}
    /\ UNCHANGED <<state, activeProviderRef, issued, last, pre, recordPromise, seekTimers,
                   seekRequests, seekBuffered, seeksAtTeardown, seeksAtReady, tornDown, seekEffectDeps, effectTimers>>
    /\ UNCHANGED <<spotifyVars, iframeVars, loaderVars>>

\* The native player fires onReady: startPlayback starts it when the adapter
\* was rendered with autoplay, and the replay of a pending seek starts it too.
onPlayerReady ==
    /\ playerRef # NULL
    /\ ~engineReady
    /\ engineReady' = TRUE
    /\ readyRef' = TRUE
    /\ seeksAtReady' = Len(seekRequests)
    /\ IF pendingSeekRef # NoSec
       THEN /\ nativeSeeks' = Append(nativeSeeks, pendingSeekRef[1])
            /\ pendingSeekRef' = NoSec
            /\ enginePlaying' = TRUE
       ELSE /\ \E autoplay \in BOOLEAN : enginePlaying' = autoplay
            /\ UNCHANGED <<nativeSeeks, pendingSeekRef>>
    /\ UNCHANGED <<playerVars, providerControls, playerRef, setupWaiting, seekTimers,
                   seekRequests, seekBuffered, seeksAtTeardown, tornDown, seekEffectDeps, effectTimers>>
    /\ UNCHANGED <<spotifyVars, iframeVars, loaderVars>>

\* controls.seekTo(seconds)
controlsSeekTo(seconds) ==
    /\ "youtube" \in providerControls
    /\ seekRequests' = Append(seekRequests, seconds)
    /\ seekBuffered' = Append(seekBuffered, ~SeekApplies)
    /\ UNCHANGED seeksAtTeardown
    /\ attemptSeek(seconds)
    /\ seekTimers' = IF SeekApplies THEN seekTimers ELSE Append(seekTimers, seconds)
    /\ UNCHANGED <<playerVars, providerControls, playerRef, readyRef, setupWaiting,
                   engineReady, seeksAtReady, tornDown, seekEffectDeps, effectTimers>>
    /\ UNCHANGED <<spotifyVars, iframeVars, loaderVars>>

\* The oldest setTimeout callback of controls.seekTo runs.
seekTimerFires ==
    /\ seekTimers # <<>>
    /\ attemptSeek(Head(seekTimers))
    /\ seekTimers' = Tail(seekTimers)
    /\ UNCHANGED <<playerVars, providerControls, playerRef, readyRef, setupWaiting,
                   engineReady, seekRequests, seekBuffered, seeksAtTeardown, seeksAtReady, tornDown, seekEffectDeps,
                   effectTimers>>
    /\ UNCHANGED <<spotifyVars, iframeVars, loaderVars>>

\* controls.teardown()
controlsTeardown ==
    /\ "youtube" \in providerControls
    /\ videoTeardown
    /\ UNCHANGED <<playerVars, providerControls>>
    /\ UNCHANGED <<spotifyVars, iframeVars, loaderVars>>

\* clearSeek() called by an adapter when its attemptSeek has made the seek
ClearSeekWhen(applied) ==
    IF applied
    THEN /\ pre' = Before(state)
         /\ last' = [op |-> "clearSeek"]
         /\ issued' = <<>>
         /\ recordPromise' = "none"
         /\ state' = clearSeekUpdater(state)
    ELSE UNCHANGED <<state, issued, last, pre, recordPromise>>

\* The seek effect runs after a commit that changed provider or seekToSec.
videoSeekEffect ==
    /\ seekEffectDeps # <<state.provider, state.seekToSec>>
    /\ seekEffectDeps' = <<state.provider, state.seekToSec>>
    /\ IF state.provider = "youtube" /\ state.seekToSec # NoSec
       THEN /\ attemptSeek(state.seekToSec[1])
            /\ ClearSeekWhen(SeekApplies)
            /\ effectTimers' = IF SeekApplies THEN effectTimers
                                ELSE Append(effectTimers, state.seekToSec[1])
       ELSE UNCHANGED <<state, issued, last, pre, recordPromise, pendingSeekRef, nativeSeeks,
                        enginePlaying, effectTimers>>
    /\ UNCHANGED <<activeProviderRef, adapterSetup, providerControls, playerRef, readyRef,
                   setupWaiting, engineReady, seekTimers, seekRequests, seekBuffered, seeksAtTeardown, seeksAtReady, tornDown>>
    /\ UNCHANGED <<spotifyVars, iframeVars, loaderVars>>

\* The oldest setTimeout callback of the seek effect runs.
seekEffectTimerFires ==
    /\ effectTimers # <<>>
    /\ attemptSeek(Head(effectTimers))
    /\ ClearSeekWhen(SeekApplies)
    /\ effectTimers' = Tail(effectTimers)
    /\ UNCHANGED <<activeProviderRef, adapterSetup, providerControls, playerRef, readyRef,
                   setupWaiting, engineReady, seekTimers, seekRequests, seekBuffered, seeksAtTeardown, seeksAtReady, tornDown,
                   seekEffectDeps>>
    /\ UNCHANGED <<spotifyVars, iframeVars, loaderVars>>

\* ---------------------------------------------------------------- streaming adapter
setupRunVars == <<spotifySetup, spotifyCancelled, spotifyEffectState, spotifySetups>>
spotifyRefVars == <<tokenRef, deviceIdRef, spotifyPlayerRef, ready>>
spotifySdkVars == <<spotifyPlayerSingleton, spotifyListenersAttached, spotifyCaptured,
                    spotifyOnline>>
spotifyWebVars == <<transfers, requests, startRequests>>
spotifyPendingVars == <<spotifyTeardowns, spotifyPauses>>
otherAdapterVars == <<videoVars, iframeVars, loaderVars>>

\* A call an adapter makes on the orchestrator's setState operations.
AdapterSets(op, next) ==
    /\ pre' = Before(state)
    /\ last' = op
    /\ issued' = <<>>
    /\ recordPromise' = "none"
    /\ state' = next

\* setIsPlaying(playing) called by the adapter when called is TRUE
SetIsPlayingWhen(called, playing) ==
    IF called
    THEN AdapterSets([op |-> "setIsPlaying", playing |-> playing],
                     setIsPlayingUpdater(state, playing))
    ELSE UNCHANGED <<state, issued, last, pre, recordPromise>>

\* if (provider !== 'spotify' || !providerTrackId || !user?.id) return;  with a
\* signed-in user
SetupGuard(s) == s.provider = "spotify" /\ s.spotifyTrackId # NULL

\* the stages in which setup() is suspended in an await
SuspendedStages == {"loadSdk", "token", "connect"}

\* The setup effect runs again because the orchestrator's state changed
\* (registerProviderControls, one of its dependencies, is a new function after
\* every state change): the cleanup of the previous run, if that run passed the
\* guard, sets cancelled and drops playerRef and ready; then the body runs,
\* and setup() suspends in await loadSdk().
spotifySetupEffect ==
    /\ spotifyEffectState # <<state>>
    /\ spotifyEffectState' = <<state>>
    /\ spotifyCancelled' =
          IF spotifySetup \in SuspendedStages
          THEN spotifyCancelled \cup {[stage |-> spotifySetup,
                                       track |-> spotifyEffectState[1].spotifyTrackId]}
          ELSE spotifyCancelled
    /\ spotifyPlayerRef' = IF spotifySetup # "idle" THEN NULL ELSE spotifyPlayerRef
    /\ ready' = IF spotifySetup # "idle" THEN FALSE ELSE ready
    /\ spotifySetup' = IF SetupGuard(state) THEN "loadSdk" ELSE "idle"
    /\ spotifySetups' = spotifySetups + (IF SetupGuard(state) THEN 1 ELSE 0)
    /\ UNCHANGED <<playerVars, providerControls, otherAdapterVars, tokenRef, deviceIdRef,
                   spotifySdkVars, spotifyWebVars, spotifyPendingVars, spotifyControls,
                   tokenWarnings>>

\* the runs of setup(): the one of the effect's latest run, and the cancelled
\* ones, each with the providerTrackId it closed over
SetupRuns ==
    (IF spotifySetup \in SuspendedStages
     THEN {[cancelled |-> FALSE, stage |-> spotifySetup,
            track |-> spotifyEffectState[1].spotifyTrackId]}
     ELSE {})
    \cup { [cancelled |-> TRUE, stage |-> c.stage, track |-> c.track] : c \in spotifyCancelled }

\* a run of setup() leaves its stage for the next one; a cancelled run that
\* returns is forgotten
MoveStage(run, to) ==
    IF run.cancelled
    THEN /\ spotifyCancelled' =
               (spotifyCancelled \ {[stage |-> run.stage, track |-> run.track]})
               \cup (IF to \in SuspendedStages
                     THEN {[stage |-> to, track |-> run.track]} ELSE {})
         /\ UNCHANGED <<spotifySetup, spotifyEffectState, spotifySetups>>
    ELSE /\ spotifySetup' = to
         /\ UNCHANGED <<spotifyCancelled, spotifyEffectState, spotifySetups>>

\* loadSdk() resolves: if (cancelled || !window.Spotify) return; otherwise
\* setup() goes on to await getValidAccessToken().
spotifySdkLoaded(run) ==
    /\ run \in SetupRuns
    /\ run.stage = "loadSdk"
    /\ MoveStage(run, IF run.cancelled THEN "returned" ELSE "token")
    /\ UNCHANGED <<playerVars, providerControls, otherAdapterVars, spotifyRefVars,
                   spotifySdkVars, spotifyWebVars, spotifyPendingVars, spotifyControls,
                   tokenWarnings>>

\* getValidAccessToken() resolves: without a token setup() warns and returns;
\* with one it takes the singleton player, attaches the listeners once (they
\* close over this run's token and providerTrackId) and calls connect().
\* cancelled is not looked at again.
spotifyTokenFetched(run, token) ==
    /\ run \in SetupRuns
    /\ run.stage = "token"
    /\ tokenRef' = token
    /\ IF token = NULL
       THEN /\ MoveStage(run, "disabled")
            /\ tokenWarnings' = tokenWarnings + 1
            /\ UNCHANGED <<spotifyPlayerRef, spotifySdkVars>>
       ELSE /\ MoveStage(run, "connect")
            /\ spotifyPlayerSingleton' = TRUE
            /\ spotifyPlayerRef' = "player"
            /\ spotifyListenersAttached' = TRUE
            /\ spotifyCaptured' = IF spotifyListenersAttached THEN spotifyCaptured
                                  ELSE <<[token |-> token, track |-> run.track]>>
            /\ spotifyOnline' = TRUE
            /\ UNCHANGED tokenWarnings
    /\ UNCHANGED <<playerVars, providerControls, otherAdapterVars, deviceIdRef, ready,
                   spotifyWebVars, spotifyPendingVars, spotifyControls>>

\* player.connect() resolves: setup() registers the controls, which close over
\* this run's providerTrackId.
spotifyConnected(run) ==
    /\ run \in SetupRuns
    /\ run.stage = "connect"
    /\ MoveStage(run, "done")
    /\ providerControls' = providerControls \cup {"spotify"}
    /\ adapterSetup' = adapterSetup \ {"spotify"}
    /\ spotifyControls' = <<run.track>>
    /\ UNCHANGED <<state, activeProviderRef, issued, last, pre, recordPromise,
                   otherAdapterVars, spotifyRefVars, spotifySdkVars, spotifyWebVars,
                   spotifyPendingVars, tokenWarnings>>

\* the transferPlayback requests issued so far
TransfersIssued == Cardinality({ k \in 1..Len(requests) : requests[k][1] = "transfer" })

\* transferPlayback(device, token, play) is called on the given path, which
\* will go on with the given token and providerTrackId; the adapter's current
\* providerTrackId and token are noted beside them, and whether the setup
\* effect has run for the current state
IssueTransfer(path, device, token, track) ==
    /\ transfers' = transfers \cup {[path |-> path, device |-> device, token |-> token,
                                     track |-> track,
                                     providerTrackId |-> state.spotifyTrackId,
                                     tokenRef |-> tokenRef,
                                     effectsRun |-> (spotifyEffectState = <<state>>)]}
    /\ requests' = Append(requests, <<"transfer", device>>)
    /\ UNCHANGED startRequests

\* The connected player's ready listener runs with the device id of the event.
onSpotifyReady(device) ==
    /\ spotifyListenersAttached
    /\ spotifyOnline
    /\ deviceIdRef' = device
    /\ ready' = TRUE
    /\ IssueTransfer("ready", device, spotifyCaptured[1].token, spotifyCaptured[1].track)
    /\ UNCHANGED <<playerVars, providerControls, otherAdapterVars, setupRunVars, tokenRef,
                   spotifyPlayerRef, spotifySdkVars, spotifyPendingVars, spotifyControls,
                   tokenWarnings>>

\* The player's not_ready listener runs.
onSpotifyNotReady ==
    /\ spotifyListenersAttached
    /\ ready
    /\ ready' = FALSE
    /\ UNCHANGED <<playerVars, providerControls, otherAdapterVars, setupRunVars, tokenRef,
                   deviceIdRef, spotifyPlayerRef, spotifySdkVars, spotifyWebVars,
                   spotifyPendingVars, spotifyControls, tokenWarnings>>

\* controls.play() with a token and a device id (it returns at once without)
spotifyControlsPlay ==
    /\ spotifyControls # <<>>
    /\ tokenRef # NULL
    /\ deviceIdRef # NULL
    /\ IssueTransfer("play", deviceIdRef, tokenRef, spotifyControls[1])
    /\ UNCHANGED <<playerVars, providerControls, otherAdapterVars, setupRunVars,
                   spotifyRefVars, spotifySdkVars, spotifyPendingVars, spotifyControls,
                   tokenWarnings>>

\* The autoplay effect runs past its guards.
spotifyAutoplayEffect ==
    /\ state.provider = "spotify"
    /\ state.spotifyTrackId # NULL
    /\ ready
    /\ tokenRef # NULL
    /\ deviceIdRef # NULL
    /\ state.autoplaySpotify
    /\ IssueTransfer("autoplay", deviceIdRef, tokenRef, state.spotifyTrackId)
    /\ UNCHANGED <<playerVars, providerControls, otherAdapterVars, setupRunVars,
                   spotifyRefVars, spotifySdkVars, spotifyPendingVars, spotifyControls,
                   tokenWarnings>>

\* the start-playback condition without the transfer's result
ShouldStartAnyway(transferred, providerTrackId) == providerTrackId # NULL

\* transferred && providerTrackId  (the autoplay effect tests transferred alone,
\* behind its own providerTrackId guard)
ShouldStart(transferred, providerTrackId) == transferred /\ providerTrackId # NULL

\* A transferPlayback request completes, res.ok or not; the path that awaited
\* it goes on: startPlayback for the same device when it should, then
\* setIsPlaying(true) on the ready path (after a start) and on the play path
\* (always).
transferCompletes(t, transferred) ==
    /\ t \in transfers
    /\ transfers' = transfers \ {t}
    /\ LET starts == ShouldStart(transferred, t.track)
       IN  /\ requests' = requests
                 \o << <<IF transferred THEN "transferOk" ELSE "transferFailed", t.device>> >>
                 \o (IF starts THEN << <<"start", t.device>> >> ELSE <<>>)
           /\ startRequests' =
                 IF starts
                 THEN Append(startRequests, t)
                 ELSE startRequests
           /\ SetIsPlayingWhen(t.path = "play" \/ (t.path = "ready" /\ starts), TRUE)
    /\ UNCHANGED <<activeProviderRef, adapterSetup, providerControls, otherAdapterVars,
                   setupRunVars, spotifyRefVars, spotifySdkVars, spotifyPendingVars,
                   spotifyControls, tokenWarnings>>

\* controls.teardown() is called: it suspends in await player.disconnect().
spotifyControlsTeardown ==
    /\ spotifyControls # <<>>
    /\ spotifyTeardowns' = spotifyTeardowns + 1
    /\ UNCHANGED <<playerVars, providerControls, otherAdapterVars, setupRunVars,
                   spotifyRefVars, spotifySdkVars, spotifyWebVars, spotifyPauses,
                   spotifyControls, tokenWarnings>>

\* disconnect() settles; a rejection is caught and logged, and either way the
\* teardown drops its references and reports not playing.
spotifyDisconnectSettles(outcome) ==
    /\ spotifyTeardowns > 0
    /\ spotifyTeardowns' = spotifyTeardowns - 1
    /\ spotifyOnline' = (spotifyOnline /\ outcome = "reject")
    /\ spotifyPlayerRef' = NULL
    /\ deviceIdRef' = NULL
    /\ ready' = FALSE
    /\ SetIsPlayingWhen(TRUE, FALSE)
    /\ UNCHANGED <<activeProviderRef, adapterSetup, providerControls, otherAdapterVars,
                   setupRunVars, tokenRef, spotifyPlayerSingleton, spotifyListenersAttached,
                   spotifyCaptured, spotifyWebVars, spotifyPauses, spotifyControls,
                   tokenWarnings>>

\* controls.pause(): await player.pause() settles; setIsPlaying(false) follows
\* a resolution, nothing a rejection.
spotifyPauseSettles(outcome) ==
    /\ spotifyPauses > 0
    /\ spotifyPauses' = spotifyPauses - 1
    /\ SetIsPlayingWhen(outcome = "resolve", FALSE)
    /\ UNCHANGED <<activeProviderRef, adapterSetup, providerControls, otherAdapterVars,
                   setupRunVars, spotifyRefVars, spotifySdkVars, spotifyWebVars,
                   spotifyTeardowns, spotifyControls, tokenWarnings>>

\* ---------------------------------------------------------------- second video adapter
\* the native call that throws during one teardown or cleanup, if any
NativeFailures == {"none", "pauseVideo", "destroy"}

\* destroy() is called on the live player instance when called is TRUE
DestroyWhen(called) ==
    iframeDestroys' = IF called
                      THEN [iframeDestroys EXCEPT ![iframePlayerRef] = @ + 1]
                      ELSE iframeDestroys

\* the injected div is taken out of its parent when the ref holds it; both
\* refs are set to null
DropPlayerAndDiv ==
    /\ iframePlayerRef' = 0
    /\ iframeHostDiv' = (iframeHostDiv /\ ~iframePlayerDivRef)
    /\ iframePlayerDivRef' = FALSE

\* The setup effect runs with a track: mounted = true, and the body waits for
\* loadYouTubeAPI().
iframeSetupEffect ==
    /\ state.youtubeTrackId # NULL
    /\ ~iframeMounted
    /\ iframeMounted' = TRUE
    /\ iframeLoading' = TRUE
    /\ iframeThrown' = FALSE
    /\ iframeLast' = "setup"
    /\ iframeTrackId' = state.youtubeTrackId
    /\ UNCHANGED <<playerVars, providerControls, videoVars, spotifyVars, loaderVars,
                   iframePlayerRef, iframePlayerDivRef, iframeHostDiv, iframeControls,
                   iframeTeardownRef, iframeDestroys, iframeVideoId>>

\* loadYouTubeAPI() resolved while mounted: a live player loads the video;
\* otherwise a div and a player are created, the controls registered and
\* teardownRef set.
iframeApiLoaded ==
    /\ iframeLoading
    /\ iframeLoading' = FALSE
    /\ iframeThrown' = FALSE
    /\ iframeLast' = "loaded"
    /\ IF iframePlayerRef # 0
       THEN /\ iframeVideoId' = [iframeVideoId EXCEPT ![iframePlayerRef] = iframeTrackId]
            /\ UNCHANGED <<iframePlayerRef, iframePlayerDivRef, iframeHostDiv, iframeControls,
                           iframeTeardownRef, iframeDestroys>>
       ELSE /\ Len(iframeDestroys) < MaxIframePlayers
            /\ iframePlayerDivRef' = TRUE
            /\ iframeHostDiv' = TRUE
            /\ iframePlayerRef' = Len(iframeDestroys) + 1
            /\ iframeDestroys' = Append(iframeDestroys, 0)
            /\ iframeVideoId' = Append(iframeVideoId, iframeTrackId)
            /\ iframeControls' = TRUE
            /\ iframeTeardownRef' = TRUE
    /\ UNCHANGED <<playerVars, providerControls, videoVars, spotifyVars, loaderVars,
                   iframeMounted, iframeTrackId>>

\* controls.teardown(): pauseVideo() and destroy() inside one try, so a
\* throwing pauseVideo() skips destroy(); then the refs are dropped.
iframeControlsTeardown(fails) ==
    /\ iframeControls
    /\ DestroyWhen(iframePlayerRef # 0 /\ fails # "pauseVideo")
    /\ DropPlayerAndDiv
    /\ iframeThrown' = FALSE
    /\ iframeLast' = "teardown"
    /\ UNCHANGED <<playerVars, providerControls, videoVars, spotifyVars, loaderVars,
                   iframeMounted, iframeLoading, iframeControls, iframeTeardownRef,
                   iframeTrackId, iframeVideoId>>

\* The cleanup wraps only destroy() in a try: a throwing pauseVideo() leaves
\* through the cleanup before anything else is done.
CleanupThrows(fails) == iframeTeardownRef /\ iframePlayerRef # 0 /\ fails = "pauseVideo"

\* What the cleanup does to the player: teardownRef.current?.().
CleanupTeardown(fails) ==
    IF iframeTeardownRef /\ ~CleanupThrows(fails)
    THEN /\ DestroyWhen(iframePlayerRef # 0)
         /\ DropPlayerAndDiv
    ELSE UNCHANGED <<iframePlayerRef, iframePlayerDivRef, iframeHostDiv, iframeDestroys>>

\* The effect's cleanup: mounted = false; teardownRef.current?.().
iframeCleanup(fails) ==
    /\ iframeMounted
    /\ iframeMounted' = FALSE
    /\ iframeLoading' = FALSE
    /\ iframeLast' = "cleanup"
    /\ iframeThrown' = CleanupThrows(fails)
    /\ CleanupTeardown(fails)
    /\ UNCHANGED <<playerVars, providerControls, videoVars, spotifyVars, loaderVars,
                   iframeControls, iframeTeardownRef, iframeTrackId, iframeVideoId>>

\* the provider track ids a video adapter is given
VideoIds == { r[2] : r \in Requests } \ {NULL}

\* The providerTrackId prop changes while the adapter stays mounted: the
\* dependency list makes the effect run again, the cleanup of the previous
\* run first (mounted = false of that run; teardownRef.current?.()), then the
\* body with the new track, which waits for loadYouTubeAPI().
iframeTrackChanged(track, fails) ==
    /\ iframeMounted
    /\ track # iframeTrackId
    /\ ~CleanupThrows(fails)
    /\ CleanupTeardown(fails)
    /\ iframeTrackId' = track
    /\ iframeLoading' = TRUE
    /\ iframeThrown' = FALSE
    /\ iframeLast' = "trackChanged"
    /\ UNCHANGED <<playerVars, providerControls, videoVars, spotifyVars, loaderVars,
                   iframeMounted, iframeControls, iframeTeardownRef, iframeVideoId>>

\* ---------------------------------------------------------------- engine loaders
SpotifySdkSrc == "https://sdk.scdn.co/spotify-player.js"
YouTubeApiSrc == "https://www.youtube.com/iframe_api"

\* document.querySelector('script[src="..."]') finds an element
ExistingScript(src) == \E k \in 1..Len(scriptTags) : scriptTags[k] = src

\* the engine's script has run and fired its ready signal
ReadySignalFired(src) == src \in DOMAIN scriptState /\ scriptState[src].state = "ran"

\* how often the loader has been called
LoaderCalls(loader) == Cardinality({ k \in 1..Len(returned) : returned[k].loader = loader })

\* a loader that never finds its in-flight promise
NeverInFlight(promise) == FALSE

\* if (sdkPromise) return sdkPromise;   if (ytPromise) return ytPromise;
InFlight(promise) == promise # 0

\* A loader call returns promise p, and the promises are as given.
Returns(loader, src, p, all) ==
    /\ promises' = all
    /\ returned' = Append(returned, [loader |-> loader, promise |-> p,
                                     fired |-> ReadySignalFired(src)])

\* A script element for src is appended unless one exists; onerror is the
\* promise its error handler rejects, 0 without a handler.
InjectOnce(src, onerror) ==
    IF ExistingScript(src)
    THEN UNCHANGED <<scriptTags, scriptState>>
    ELSE /\ scriptTags' = Append(scriptTags, src)
         /\ scriptState' = [s \in DOMAIN scriptState \cup {src} |->
                               IF s = src THEN [state |-> "loading", onerror |-> onerror]
                               ELSE scriptState[s]]

\* loadSdk()
loadSdk ==
    /\ IF sdkReady
       THEN /\ Returns("loadSdk", SpotifySdkSrc, Len(promises) + 1, Append(promises, "resolved"))
            /\ UNCHANGED <<sdkPromise, sdkReady, onSpotifyWebPlaybackSDKReady, scriptTags,
                           scriptState>>
       ELSE IF InFlight(sdkPromise)
       THEN /\ Returns("loadSdk", SpotifySdkSrc, sdkPromise, promises)
            /\ UNCHANGED <<sdkPromise, sdkReady, onSpotifyWebPlaybackSDKReady, scriptTags,
                           scriptState>>
       ELSE LET p == Len(promises) + 1
            IN  /\ sdkPromise' = p
                /\ IF "Spotify" \in windowApi
                   THEN /\ sdkReady' = TRUE
                        /\ Returns("loadSdk", SpotifySdkSrc, p, Append(promises, "resolved"))
                        /\ UNCHANGED <<onSpotifyWebPlaybackSDKReady, scriptTags, scriptState>>
                   ELSE /\ Returns("loadSdk", SpotifySdkSrc, p, Append(promises, "pending"))
                        /\ onSpotifyWebPlaybackSDKReady' = p
                        /\ InjectOnce(SpotifySdkSrc, p)
                        /\ UNCHANGED sdkReady
    /\ UNCHANGED <<playerVars, providerControls, videoVars, spotifyVars, iframeVars,
                   ytPromise, windowApi, onYouTubeIframeAPIReady>>

\* loadYouTubeApi()
loadYouTubeApi ==
    /\ IF "YT" \in windowApi
       THEN /\ Returns("loadYouTubeApi", YouTubeApiSrc, Len(promises) + 1,
                       Append(promises, "resolved"))
            /\ UNCHANGED <<ytPromise, onYouTubeIframeAPIReady, scriptTags, scriptState>>
       ELSE IF InFlight(ytPromise)
       THEN /\ Returns("loadYouTubeApi", YouTubeApiSrc, ytPromise, promises)
            /\ UNCHANGED <<ytPromise, onYouTubeIframeAPIReady, scriptTags, scriptState>>
       ELSE LET p == Len(promises) + 1
            IN  /\ ytPromise' = p
                /\ Returns("loadYouTubeApi", YouTubeApiSrc, p, Append(promises, "pending"))
                /\ onYouTubeIframeAPIReady' = p
                /\ InjectOnce(YouTubeApiSrc, 0)
    /\ UNCHANGED <<playerVars, providerControls, videoVars, spotifyVars, iframeVars,
                   sdkPromise, sdkReady, windowApi, onSpotifyWebPlaybackSDKReady>>

\* promise p settles as given unless it is 0 or already settled
Settle(p, as) ==
    promises' = [k \in 1..Len(promises) |->
                    IF k = p /\ promises[k] = "pending" THEN as ELSE promises[k]]

\* The engine's script runs: it defines the API object and fires the ready
\* signal, calling the callback found on window.
scriptRuns(src) ==
    /\ src \in DOMAIN scriptState
    /\ scriptState[src].state = "loading"
    /\ scriptState' = [scriptState EXCEPT ![src].state = "ran"]
    /\ IF src = SpotifySdkSrc
       THEN /\ windowApi' = windowApi \cup {"Spotify"}
            /\ sdkReady' = (sdkReady \/ onSpotifyWebPlaybackSDKReady # 0)
            /\ Settle(onSpotifyWebPlaybackSDKReady, "resolved")
       ELSE /\ windowApi' = windowApi \cup {"YT"}
            /\ Settle(onYouTubeIframeAPIReady, "resolved")
            /\ UNCHANGED sdkReady
    /\ UNCHANGED <<playerVars, providerControls, videoVars, spotifyVars, iframeVars,
                   sdkPromise, ytPromise, returned, onSpotifyWebPlaybackSDKReady,
                   onYouTubeIframeAPIReady, scriptTags>>

\* The engine's script fails to load: its onerror handler, if any, rejects.
scriptFails(src) ==
    /\ src \in DOMAIN scriptState
    /\ scriptState[src].state = "loading"
    /\ scriptState' = [scriptState EXCEPT ![src].state = "failed"]
    /\ Settle(scriptState[src].onerror, "rejected")
    /\ UNCHANGED <<playerVars, providerControls, videoVars, spotifyVars, iframeVars,
                   sdkPromise, sdkReady, ytPromise, returned, windowApi,
                   onSpotifyWebPlaybackSDKReady, onYouTubeIframeAPIReady, scriptTags>>

\* ---------------------------------------------------------------- specifications
InitWith(playerState) ==
    /\ state = playerState
    /\ activeProviderRef = NULL
    /\ providerControls = {}
    /\ adapterSetup = {}
    /\ issued = <<>>
    /\ last = [op |-> "init"]
    /\ pre = Before(InitialState)
    /\ recordPromise = "none"
    /\ playerRef = NULL
    /\ readyRef = FALSE
    /\ pendingSeekRef = NoSec
    /\ setupWaiting = FALSE
    /\ engineReady = FALSE
    /\ seekTimers = <<>>
    /\ nativeSeeks = <<>>
    /\ seekRequests = <<>>
    /\ seekBuffered = <<>>
    /\ seeksAtTeardown = 0
    /\ seeksAtReady = -1
    /\ tornDown = FALSE
    /\ enginePlaying = FALSE
    /\ seekEffectDeps = <<NULL, NoSec>>
    /\ effectTimers = <<>>
    /\ spotifySetup = "idle"
    /\ tokenRef = NULL
    /\ deviceIdRef = NULL
    /\ spotifyPlayerRef = NULL
    /\ ready = FALSE
    /\ spotifyPlayerSingleton = FALSE
    /\ spotifyListenersAttached = FALSE
    /\ transfers = {}
    /\ requests = <<>>
    /\ spotifyTeardowns = 0
    /\ spotifyPauses = 0
    /\ spotifyControls = <<>>
    /\ spotifyCancelled = {}
    /\ spotifyEffectState = <<>>
    /\ spotifySetups = 0
    /\ tokenWarnings = 0
    /\ spotifyCaptured = <<>>
    /\ spotifyOnline = FALSE
    /\ startRequests = <<>>
    /\ iframeMounted = FALSE
    /\ iframeLoading = FALSE
    /\ iframePlayerRef = 0
    /\ iframePlayerDivRef = FALSE
    /\ iframeHostDiv = FALSE
    /\ iframeControls = FALSE
    /\ iframeTeardownRef = FALSE
    /\ iframeDestroys = <<>>
    /\ iframeThrown = FALSE
    /\ iframeLast = "init"
    /\ iframeTrackId = NULL
    /\ iframeVideoId = <<>>
    /\ sdkPromise = 0
    /\ sdkReady = FALSE
    /\ ytPromise = 0
    /\ promises = <<>>
    /\ returned = <<>>
    /\ windowApi = {}
    /\ onSpotifyWebPlaybackSDKReady = 0
    /\ onYouTubeIframeAPIReady = 0
    /\ scriptTags = <<>>
    /\ scriptState = [src \in {} |-> "loading"]

Init == InitWith(InitialState)

\* The state play('t1', 'youtube', 'p2') leaves: the video adapter is rendered.
InitVideo == InitWith(playUpdater(InitialState, "t1", "youtube", "p2", NoSec))

IndexArgs(q) == (0 - MaxNegIndex) .. Len(q)
OpenPayloads ==
    { [ canonicalTrackId |-> r[1], provider |-> p, providerTrackId |-> r[2],
        startSec |-> s, autoplay |-> a ] :
      r \in Requests, p \in Engines, s \in StartSecs, a \in {<<>>, <<FALSE>>} }

\* reorderQueue is handed the current queue in another order.
QueueEdit(maxLen) ==
    \/ \E track \in Tracks : Len(state.queue) < maxLen /\ addToQueue(track)
    \/ \E index \in IndexArgs(state.queue) : removeFromQueue(index)
    \/ \E newQueue \in Shuffles(state.queue) : reorderQueue(newQueue)
    \/ clearQueue
    \/ shuffleQueue

QueuePlay ==
    \/ \E index \in IndexArgs(state.queue), preferred \in Preferences :
          playFromQueue(index, preferred)
    \/ \E preferred \in Preferences : nextTrack(preferred)
    \/ \E preferred \in Preferences : previousTrack(preferred)

Next ==
    \/ \E r \in Requests, p \in Engines, s \in StartSecs : play(r[1], p, r[2], s)
    \/ \E payload \in OpenPayloads : openPlayer(payload)
    \/ \E r \in Requests, p \in Engines : switchProvider(p, r[2], r[1])
    \/ pause
    \/ stop
    \/ closeSpotify
    \/ closeYoutube
    \/ \E sec \in SeekSecs : seekTo(sec)
    \/ clearSeek
    \/ \E playing \in BOOLEAN : setIsPlaying(playing)
    \/ QueueEdit(MaxQueueAll)
    \/ QueuePlay

\* PlayerState under every operation that sets it.  No updater reads a ref, so
\* the effects and the adapters are left to SwitchSpec.
Spec == Init /\ [][Next]_vars

\* The operations that activate or stop a provider, with the effects and the
\* adapters' registration interleaved.
NextSwitch ==
    \/ \E r \in Requests, p \in Engines, s \in StartSecs : play(r[1], p, r[2], s)
    \/ \E payload \in OpenPayloads : openPlayer(payload)
    \/ \E r \in Requests, p \in Engines : switchProvider(p, r[2], r[1])
    \/ pause
    \/ stop
    \/ RunEffects
    \/ \E e \in Engines : registerProviderControls(e)

SwitchSpec == Init /\ [][NextSwitch]_vars

\* The operations that notify the event recorder, the settling of its promise,
\* and the effects and registrations that make the operations call an adapter.
NextRecord ==
    \/ \E r \in Requests, p \in Engines, s \in StartSecs : play(r[1], p, r[2], s)
    \/ \E payload \in OpenPayloads : openPlayer(payload)
    \/ \E r \in Requests, p \in Engines : switchProvider(p, r[2], r[1])
    \/ \E outcome \in RecordOutcomes : recordSettles(outcome)
    \/ RunEffects
    \/ \E e \in Engines : registerProviderControls(e)

RecordSpec == Init /\ [][NextRecord]_vars

\* Only the queue operations.
NextQueue == QueueEdit(MaxQueue) \/ QueuePlay

QueueSpec == Init /\ [][NextQueue]_vars

\* The video adapter alone: seeks requested through its controls, its retry
\* timers, the engine's ready signal and teardown.
NextSeek ==
    \/ videoSetupEffect
    \/ videoSetupResume
    \/ onPlayerReady
    \/ \E seconds \in VideoSeekSecs : Len(seekRequests) < MaxSeekRequests /\ controlsSeekTo(seconds)
    \/ seekTimerFires
    \/ controlsTeardown

SeekSpec == InitVideo /\ [][NextSeek]_vars

\* The orchestrator's seek and pause with the video adapter rendered: its setup,
\* the engine's ready signal, its seek effect and that effect's retry timer.
NextSeekEffect ==
    \/ \E sec \in SeekSecs :
          Len(nativeSeeks) < MaxSeekRequests /\ Len(effectTimers) < MaxSeekRequests /\ seekTo(sec)
    \/ \E s \in StartSecs :
          Len(nativeSeeks) < MaxSeekRequests /\ Len(effectTimers) < MaxSeekRequests
          /\ play("t2", "youtube", "p2", s)
    \/ pause
    \/ RunEffects
    \/ videoSetupEffect
    \/ videoSetupResume
    \/ onPlayerReady
    \/ videoSeekEffect
    \/ seekEffectTimerFires

SeekEffectSpec == InitVideo /\ [][NextSeekEffect]_vars

\* The state play('t1', 'spotify', 'p1') leaves: the streaming adapter is rendered.
InitSpotify == InitWith(playUpdater(InitialState, "t1", "spotify", "p1", NoSec))

\* The streaming adapter alone: its setup, the SDK's events, its controls and
\* autoplay effect, and the Web API's answers.
NextSpotify ==
    \/ spotifySetups < MaxSetups /\ spotifySetupEffect
    \/ \E run \in SetupRuns : spotifySdkLoaded(run)
    \/ \E run \in SetupRuns, token \in Tokens : spotifyTokenFetched(run, token)
    \/ \E run \in SetupRuns : spotifyConnected(run)
    \/ \E device \in Devices : TransfersIssued < MaxTransfers /\ onSpotifyReady(device)
    \/ onSpotifyNotReady
    \/ TransfersIssued < MaxTransfers /\ spotifyControlsPlay
    \/ TransfersIssued < MaxTransfers /\ spotifyAutoplayEffect
    \/ \E t \in transfers, transferred \in BOOLEAN : transferCompletes(t, transferred)
    \/ spotifyTeardowns < MaxTeardowns /\ spotifyControlsTeardown
    \/ \E outcome \in {"resolve", "reject"} : spotifyDisconnectSettles(outcome)

SpotifySpec == InitSpotify /\ [][NextSpotify]_vars

\* A session with the streaming adapter: play calls for either engine and
\* either track, PlayerProvider's effect, and everything the adapter and the
\* SDK do in between.
SessionPlays == { <<"t1", "spotify", "p1">>, <<"t2", "spotify", "p2">>,
                  <<"t1", "youtube", "p2">> }

NextSession ==
    \/ \E r \in SessionPlays :
          /\ spotifyTeardowns < MaxSessionStops
          /\ spotifyPauses < MaxSessionStops
          /\ play(r[1], r[2], r[3], NoSec)
    \/ RunEffects
    \/ spotifySetups < MaxSetups /\ spotifySetupEffect
    \/ \E run \in SetupRuns : spotifySdkLoaded(run)
    \/ \E run \in SetupRuns, token \in Tokens : spotifyTokenFetched(run, token)
    \/ \E run \in SetupRuns : spotifyConnected(run)
    \/ TransfersIssued < MaxSessionTransfers /\ onSpotifyReady("d1")
    \/ \E t \in transfers, transferred \in BOOLEAN : transferCompletes(t, transferred)
    \/ \E outcome \in {"resolve", "reject"} : spotifyDisconnectSettles(outcome)
    \/ \E outcome \in {"resolve", "reject"} : spotifyPauseSettles(outcome)

SessionSpec == Init /\ [][NextSession]_vars

\* The video adapters' lifecycles: setup, the engine's ready signal, teardown
\* through the controls and unmount cleanup, with native calls that may throw.
NextTeardown ==
    \/ iframeSetupEffect
    \/ iframeApiLoaded
    \/ \E fails \in NativeFailures : iframeControlsTeardown(fails)
    \/ \E fails \in NativeFailures : iframeCleanup(fails)
    \/ \E track \in VideoIds, fails \in NativeFailures : iframeTrackChanged(track, fails)
    \/ videoSetupEffect
    \/ videoSetupResume
    \/ onPlayerReady
    \/ controlsTeardown

TeardownSpec == InitVideo /\ [][NextTeardown]_vars

\* The two engine loaders called any number of times, in any order with the
\* loading, or failing, of their scripts.
NextLoader ==
    \/ LoaderCalls("loadSdk") < MaxLoaderCalls /\ loadSdk
    \/ LoaderCalls("loadYouTubeApi") < MaxLoaderCalls /\ loadYouTubeApi
    \/ \E src \in {SpotifySdkSrc, YouTubeApiSrc} : scriptRuns(src)
    \/ \E src \in {SpotifySdkSrc, YouTubeApiSrc} : scriptFails(src)

LoaderSpec == Init /\ [][NextLoader]_vars

\* ================================================================ properties
Other(engine) == IF engine = "spotify" THEN "youtube" ELSE "spotify"
OpenFlag(s, engine) == IF engine = "spotify" THEN s.spotifyOpen ELSE s.youtubeOpen
AutoplayFlag(s, engine) == IF engine = "spotify" THEN s.autoplaySpotify ELSE s.autoplayYoutube
SwitchOps == {"play", "openPlayer", "switchProvider"}
PauseThenTeardown(engine) == << <<engine, "pause">>, <<engine, "teardown">> >>

\* C1: whatever sequence of operations led here, spotifyOpen and youtubeOpen
\* are not both true.
C1_MutualExclusion == ~(state.spotifyOpen /\ state.youtubeOpen)

\* C1 witness: switchProvider has just moved an open Spotify player to YouTube.
C1_Witness ==
    /\ last.op = "switchProvider"
    /\ pre.provider = "spotify"
    /\ state.youtubeOpen
    /\ ~state.spotifyOpen

\* C2: when play, openPlayer or switchProvider has changed the active provider
\* from one engine to the other, and the previous engine's adapter had been set
\* up, the operation made a pause call and then a teardown call on that
\* adapter.  (The calls of an operation precede its setState.)
C2_SwitchTearsDownPrevious ==
    ( /\ last.op \in SwitchOps
      /\ pre.provider \in Engines
      /\ state.provider \in Engines
      /\ state.provider # pre.provider
      /\ pre.provider \in providerControls \cup adapterSetup )
    => issued = PauseThenTeardown(pre.provider)

\* C3: the active provider's counterpart is closed: provider = 'spotify' implies
\* youtubeOpen = false, and provider = 'youtube' implies spotifyOpen = false.
C3_ActiveExcludesOther ==
    /\ state.provider = "spotify" => ~state.youtubeOpen
    /\ state.provider = "youtube" => ~state.spotifyOpen

\* C4: while every seekTo request so far was made before the engine signalled
\* ready (and the adapter was not torn down), a ready engine has received
\* exactly one native seek, to the position requested last.
C4_OneSeekToLatest ==
    ( /\ engineReady
      /\ ~tornDown
      /\ seekRequests # <<>>
      /\ seeksAtReady = Len(seekRequests) )
    => nativeSeeks = << seekRequests[Len(seekRequests)] >>

\* C5: right after play(c, P, pid, startSec) with c and pid non-null, provider
\* is P, canonicalTrackId is c, P is open and set to autoplay, the other engine
\* is closed and not set to autoplay, seekToSec is startSec (null when omitted)
\* and isPlaying is true.
C5_PlayResult ==
    ( /\ last.op = "play"
      /\ last.canonicalTrackId # NULL
      /\ last.providerTrackId # NULL )
    => /\ state.provider = last.provider
       /\ state.canonicalTrackId = last.canonicalTrackId
       /\ OpenFlag(state, last.provider)
       /\ ~OpenFlag(state, Other(last.provider))
       /\ AutoplayFlag(state, last.provider)
       /\ ~AutoplayFlag(state, Other(last.provider))
       /\ state.seekToSec = last.startSec
       /\ state.isPlaying

\* C5 witness: play('t2', youtube, 'p2') right after Spotify was playing 'p1'.
C5_Witness ==
    /\ last.op = "play"
    /\ last.canonicalTrackId = "t2"
    /\ last.provider = "youtube"
    /\ last.providerTrackId = "p2"
    /\ pre.provider = "spotify"
    /\ state.spotifyTrackId = "p1"
    /\ state.provider = "youtube"
    /\ state.canonicalTrackId = "t2"

\* C6: queueIndex is -1 or an index of the queue.
C6_QueueIndexInRange ==
    state.queueIndex = -1 \/ (0 <= state.queueIndex /\ state.queueIndex < Len(state.queue))

\* C7: a nextTrack or previousTrack step that selects a queue track for an
\* engine leaves the state play(track.id, engine, providerTrackId) would leave,
\* but for queueIndex, and makes the calls play would make.
C7_AdvanceBehavesAsPlay ==
    [][ ( /\ last'.op \in {"nextTrack", "previousTrack"}
          /\ last'.provider \in Engines
          /\ state'.queueIndex # state.queueIndex
          /\ 0 <= state'.queueIndex /\ state'.queueIndex < Len(state.queue) )
        => LET track == state.queue[state'.queueIndex + 1]
               engine == last'.provider
               trackId == IF engine = "spotify" THEN track.spotify_id ELSE track.youtube_id
               played == playUpdater(state, track.id, engine, trackId, NoSec)
           IN  /\ state' = [played EXCEPT !.queueIndex = state'.queueIndex]
               /\ issued' = StopPrevious(activeProviderRef, engine, providerControls)
      ]_vars

\* C8: on a queue of length n > 0 with 0 <= queueIndex < n, nextTrack moves
\* queueIndex to (queueIndex + 1) mod n and previousTrack to (queueIndex - 1) mod n.
C8_Wraparound ==
    LET n == Len(pre.queue)
    IN  (n > 0 /\ 0 <= pre.queueIndex /\ pre.queueIndex < n)
        => /\ last.op = "nextTrack" => state.queueIndex = (pre.queueIndex + 1) % n
           /\ last.op = "previousTrack" => state.queueIndex = (pre.queueIndex + n - 1) % n

\* C8 witness: nextTrack at the last index of a queue of at least two tracks
\* has moved to index 0.
C8_Witness ==
    /\ last.op = "nextTrack"
    /\ Len(pre.queue) >= 2
    /\ pre.queueIndex = Len(pre.queue) - 1
    /\ state.queueIndex = 0

\* C9: removeFromQueue(i), i >= 0, leaves the old queue without its entry at
\* position i; for i < queueIndex it decrements queueIndex by one, so that
\* queue[queueIndex] is the same track as before; for i >= queueIndex it leaves
\* queueIndex as it was.
C9_RemovalIndex ==
    (last.op = "removeFromQueue" /\ last.index >= 0)
    => LET i == last.index
           n == Len(pre.queue)
       IN  /\ state.queue = IF i < n
                            THEN SubSeq(pre.queue, 1, i) \o SubSeq(pre.queue, i + 2, n)
                            ELSE pre.queue
           /\ i < pre.queueIndex =>
                /\ state.queueIndex = pre.queueIndex - 1
                /\ pre.queueIndex < n =>
                     state.queue[state.queueIndex + 1] = pre.queue[pre.queueIndex + 1]
           /\ i >= pre.queueIndex => state.queueIndex = pre.queueIndex

\* C9 witness: an entry before the current one was removed from a queue of
\* three whose current entry differs from its predecessor.
C9_Witness ==
    /\ last.op = "removeFromQueue"
    /\ Len(pre.queue) = 3
    /\ pre.queueIndex = 2
    /\ last.index = 0
    /\ pre.queue[2] # pre.queue[3]
    /\ state.queueIndex = 1

\* the number of positions after index k at which queue q holds track t
CountAfter(q, k, t) == Cardinality({ j \in 1..Len(q) : j - 1 > k /\ q[j] = t })

\* C10: shuffleQueue leaves queueIndex and the entries at indices 0..queueIndex
\* as they were, and the entries after queueIndex are the old ones in some
\* order: the same tracks, each as many times.
C10_ShuffleStable ==
    last.op = "shuffleQueue"
    => /\ state.queueIndex = pre.queueIndex
       /\ Len(state.queue) = Len(pre.queue)
       /\ \A j \in 1..Len(pre.queue) : j - 1 <= pre.queueIndex => state.queue[j] = pre.queue[j]
       /\ \A t \in Tracks :
             CountAfter(state.queue, pre.queueIndex, t) = CountAfter(pre.queue, pre.queueIndex, t)

\* C10 witness: a shuffle with a current track changed the order after it.
C10_Witness ==
    /\ last.op = "shuffleQueue"
    /\ pre.queueIndex >= 0
    /\ pre.queueIndex < Len(pre.queue)
    /\ state.queue # pre.queue

\* C11: nextTrack and previousTrack on an empty queue, and removeFromQueue(i)
\* with i outside [0, queue.length), leave the whole PlayerState as it was.
\* (Every step of QueueSpec is a call of the operation named by last'.)
C11_EdgeCasesAreNoOps ==
    [][ ( \/ last'.op \in {"nextTrack", "previousTrack"} /\ Len(state.queue) = 0
          \/ last'.op = "removeFromQueue" /\ ~HasIndex(state.queue, last'.index) )
        => state' = state
      ]_vars

\* C12: right after stop() in a state whose active engine's adapter had been
\* set up, a teardown call was made on that adapter, and the state is Idle:
\* no provider, both engines closed, no track ids, no seek, no autoplay, not
\* playing, with queue and queueIndex as before.
C12_StopTearsDownAndIdles ==
    ( /\ last.op = "stop"
      /\ pre.provider \in Engines
      /\ pre.provider \in providerControls \cup adapterSetup )
    => /\ \E k \in 1..Len(issued) : issued[k] = <<pre.provider, "teardown">>
       /\ state = [InitialState EXCEPT !.queue = pre.queue, !.queueIndex = pre.queueIndex,
                                       !.currentSectionId = state.currentSectionId]

\* A step of SwitchSpec that is a call of operation op: the effects and the
\* registrations change a ref, a call changes none.
CallStep(op) ==
    /\ last'.op = op
    /\ UNCHANGED <<activeProviderRef, providerControls, adapterSetup>>

\* C13: pause() in a state whose active engine has its controls registered
\* makes one pause call on that engine's adapter, sets isPlaying to false and
\* both autoplay flags to false, and changes no other field.
C13_PauseForwards ==
    [][ ( /\ CallStep("pause")
          /\ state.provider \in Engines
          /\ state.provider \in providerControls )
        => /\ issued' = << <<state.provider, "pause">> >>
           /\ state' = [state EXCEPT !.isPlaying = FALSE, !.autoplaySpotify = FALSE,
                                     !.autoplayYoutube = FALSE]
      ]_vars

\* C16: a committed state with both engines open, or with one engine active
\* and the other engine's open flag true, makes the invariant effect throw,
\* whatever isPlaying is.
C16_InvariantEffectThrows ==
    ( \/ state.spotifyOpen /\ state.youtubeOpen
      \/ state.provider = "spotify" /\ state.youtubeOpen
      \/ state.provider = "youtube" /\ state.spotifyOpen )
    => InvariantEffect(state) # NULL

C14_SeekKeepsTransport ==
    [][ /\ last'.op = "seekTo" => state' = [state EXCEPT !.seekToSec = last'.sec]
        /\ ( /\ last.op = "seekTo"
             /\ nativeSeeks' # nativeSeeks
             /\ SeekApplies
             /\ ~enginePlaying
             /\ ~state.isPlaying )
           => (~enginePlaying' /\ ~state'.isPlaying)
      ]_vars

\* The seek of the last seekTo call has been applied to the video engine, and
\* the adapter has no step left for it: its seek effect has run for the
\* current seekToSec, no retry timer is pending and no seek is buffered.
SeekConsumed ==
    /\ last.op = "seekTo"
    /\ Len(nativeSeeks) > last.seeks
    /\ nativeSeeks[Len(nativeSeeks)] = last.sec[1]
    /\ seekEffectDeps = <<state.provider, state.seekToSec>>
    /\ effectTimers = <<>>
    /\ pendingSeekRef = NoSec

\* C15: seekToSec is reset to null by the adapter only in a step that applies
\* the seek to the engine, and once the adapter has applied the requested seek
\* and has no step left for it, seekToSec is null.
C15_SeekClearedWhenConsumed ==
    /\ [](SeekConsumed => state.seekToSec = NoSec)
    /\ [][ (state.seekToSec # NoSec /\ state'.seekToSec = NoSec /\ last'.op = "clearSeek")
           => nativeSeeks' = Append(nativeSeeks, state.seekToSec[1]) ]_vars

\* C20: every start-playback request follows at once the successful answer to
\* a device-transfer request for the same device id, which was issued before.
C20_StartOnlyAfterTransfer ==
    \A i \in 1..Len(requests) :
        requests[i][1] = "start"
        => /\ i > 1
           /\ requests[i - 1] = <<"transferOk", requests[i][2]>>
           /\ \E k \in 1..(i - 1) : requests[k] = <<"transfer", requests[i][2]>>

\* C20 witness: a transfer failed and no start followed it, and a transfer
\* for the other device succeeded and its start followed.
C20_Witness ==
    \E i, j \in 1..Len(requests) :
        /\ requests[i][1] = "transferFailed"
        /\ requests[j][1] = "start"
        /\ requests[j][2] # requests[i][2]
        /\ i = Len(requests) \/ requests[i + 1][1] # "start"

\* C18: no exception leaves a teardown or an unmount cleanup, no native video
\* player instance receives destroy() twice, and after either call with a
\* teardown in place the adapter holds no player reference and no injected
\* element; the first video adapter, once torn down and not set up again,
\* holds no player reference and no pending seek.
C18_TeardownIdempotentNeverThrows ==
    /\ ~iframeThrown
    /\ \A k \in 1..Len(iframeDestroys) : iframeDestroys[k] <= 1
    /\ (iframeLast \in {"teardown", "cleanup"} /\ iframeTeardownRef)
          => (iframePlayerRef = 0 /\ ~iframePlayerDivRef /\ ~iframeHostDiv)
    /\ (tornDown /\ ~setupWaiting /\ playerRef = NULL) => (pendingSeekRef = NoSec /\ ~readyRef)

\* the src of the script a loader loads
LoaderSrc(loader) == IF loader = "loadSdk" THEN SpotifySdkSrc ELSE YouTubeApiSrc

\* C19: no loader script is appended to the document twice, the calls a
\* loader received before its engine's ready signal all returned one promise,
\* and once the ready signal has fired the promise of every call is resolved.
C19_LoaderSharesOneLoad ==
    /\ \A i, j \in 1..Len(scriptTags) : scriptTags[i] = scriptTags[j] => i = j
    /\ \A i, j \in 1..Len(returned) :
          (returned[i].loader = returned[j].loader /\ ~returned[i].fired /\ ~returned[j].fired)
          => returned[i].promise = returned[j].promise
    /\ \A i \in 1..Len(returned) :
          ReadySignalFired(LoaderSrc(returned[i].loader))
          => promises[returned[i].promise] = "resolved"

\* C19 witness: a loader was called twice before its ready signal and once
\* after it, and the signal has fired.
C19_Witness ==
    \E i, j, k \in 1..Len(returned) :
        /\ i < j
        /\ returned[i].loader = returned[j].loader
        /\ returned[k].loader = returned[i].loader
        /\ ~returned[i].fired
        /\ ~returned[j].fired
        /\ returned[k].fired
        /\ promises[returned[i].promise] = "resolved"

\* a step in which a device-transfer request is answered with a failure
TransferFailsStep ==
    /\ Len(requests') = Len(requests) + 1
    /\ requests'[Len(requests')][1] = "transferFailed"

\* C21: the step in which a device transfer fails makes no call on the
\* orchestrator: the adapter does not report the transport as playing.
C21_FailedHandoffNotPlaying ==
    [][ TransferFailsStep => (last' = last /\ state' = state) ]_vars

\* C22: once 'token unavailable' has been logged, it is not logged again, no
\* player is created or connected, no controls are registered and no
\* device-transfer request is issued.
C22_NoTokenDisablesSession ==
    [][ tokenWarnings > 0
        => /\ tokenWarnings' = tokenWarnings
           /\ spotifyPlayerSingleton' = spotifyPlayerSingleton
           /\ spotifyOnline' => spotifyOnline
           /\ spotifyControls' = spotifyControls
           /\ TransfersIssued' = TransfersIssued ]_vars

\* a step in which a cancelled run of setup() resumes from its await
CancelledRunResumes == \E c \in spotifyCancelled : c \notin spotifyCancelled'

\* C26: while another provider is active, a cancelled run of the streaming
\* adapter's setup() that resumes creates and connects no player and registers
\* no controls.
C26_SupersededSetupStops ==
    [][ (state.provider # "spotify" /\ CancelledRunResumes)
        => /\ spotifyOnline' = spotifyOnline
           /\ spotifyPlayerRef' = spotifyPlayerRef
           /\ spotifyPlayerSingleton' = spotifyPlayerSingleton
           /\ spotifyControls' = spotifyControls
           /\ providerControls' = providerControls ]_vars

\* a step in which a pause or a teardown of the streaming adapter completes
SpotifyStopCompletes ==
    spotifyTeardowns' < spotifyTeardowns \/ spotifyPauses' < spotifyPauses

\* C27: while the video provider is active, the completion of a pause or a
\* teardown of the streaming adapter leaves isPlaying as it is.
C27_StaleStopKeepsIsPlaying ==
    [][ (state.provider = "youtube" /\ SpotifyStopCompletes)
        => state'.isPlaying = state.isPlaying ]_vars

\* C30: every start-playback request that follows a ready signal carries the
\* providerTrackId and the token the adapter had when the signal came (its
\* effects having run for the state of that moment).
C30_ReadyUsesCurrentValues ==
    \A k \in 1..Len(startRequests) :
        (startRequests[k].path = "ready" /\ startRequests[k].effectsRun)
        => /\ startRequests[k].track = startRequests[k].providerTrackId
           /\ startRequests[k].token = startRequests[k].tokenRef

\* every seek request so far was made before the engine signalled ready and
\* was buffered, the engine is ready, and no retry timer is left
BufferedSeeksDelivered ==
    /\ engineReady
    /\ readyRef
    /\ ~tornDown
    /\ seekRequests # <<>>
    /\ seeksAtReady = Len(seekRequests)
    /\ \A k \in 1..Len(seekBuffered) : seekBuffered[k]
    /\ seekTimers = <<>>

C28_NoStaleRetrySeek ==
    [][ Len(nativeSeeks') > Len(nativeSeeks)
        => /\ seekRequests' # <<>>
           /\ nativeSeeks'[Len(nativeSeeks')] = seekRequests'[Len(seekRequests')] ]_vars

\* a step in which a newly constructed native player signals ready
NewPlayerReady == ~engineReady /\ engineReady'

\* C29: a native player that signals ready after a teardown receives a seek
\* only if a seek was requested after that teardown.
C29_NoSeekAcrossTeardown ==
    [][ (tornDown /\ NewPlayerReady /\ Len(seekRequests) = seeksAtTeardown)
        => nativeSeeks' = nativeSeeks ]_vars

\* C25: after nextTrack or previousTrack has moved to a queue track, the
\* provider is one of the two engines and the track has an id for it.
C25_AdvanceResolvesProvider ==
    ( /\ last.op \in {"nextTrack", "previousTrack"}
      /\ pre.queue # <<>> )
    => /\ state.provider \in Engines
       /\ state.trackId # NULL

\* C24: when providerTrackId changes while the second video adapter holds a
\* live native player, the effect's re-run neither destroys that player nor
\* drops the reference to it (so the new track is loaded into it and no other
\* player is constructed).
C24_TrackChangeReusesPlayer ==
    [][ (iframeLast' = "trackChanged" /\ iframeLast # "trackChanged" /\ iframePlayerRef # 0)
        => /\ iframePlayerRef' = iframePlayerRef
           /\ iframeDestroys' = iframeDestroys ]_vars

====
